---- MODULE Spec2Model ----
(***************************************************************************)
(* Model of latgraph's lattice data model and relabelling engine           *)
(* (src/lattice.py): Lattice.check_consistency, Lattice.centre,            *)
(* Lattice.label_graph with its helpers, Site.relabel and Lattice.relabel; *)
(* of its file formats (src/fileio.py, SpecIO), of the command line        *)
(* program (src/latgraph.py, SpecMain) and of the pyramid, triangle,      *)
(* zig-zag and armchair ribbon generators (SpecGen).                       *)
(*                                                                         *)
(* Conventions                                                             *)
(*  - Python lists are TLA+ sequences; Python position k is element k+1.   *)
(*    Site indices, neighbour ids, labels and `cur` keep their 0-based     *)
(*    Python values.                                                       *)
(*  - Positions are integer pairs lying on the eight compass directions    *)
(*    (or the origin), so that arctan2 is an exact multiple of pi/4; angles*)
(*    are counted in units of pi/4.                                        *)
(*  - Distances are compared through N^2 times their square, an integer.   *)
(*    Lattices are drawn so that centre() is exact in binary floating      *)
(*    point (ExactCentre); there the integer comparison and the floating   *)
(*    point comparison of np.linalg.norm agree, ties included.             *)
(***************************************************************************)
EXTENDS Integers, Sequences, FiniteSets, TLC

\* Largest number of sites of a lattice with an arbitrary neighbour graph.
MaxN == 3
\* Largest number of sites of a ring lattice (one cycle).
MaxRing == 6

\* args.method: the two supported traversal methods and an unsupported one.
Methods == {"innermost", "anticlockwise", "clockwise"}

\* Positions of the lattices with an arbitrary neighbour graph.
Points == {<<0, 0>>, <<1, 0>>, <<0, 1>>, <<-1, 0>>, <<0, -1>>}

\* The eight compass directions in anticlockwise order (ring lattices).
Compass ==
    << <<1, 0>>, <<1, 1>>, <<0, 1>>, <<-1, 1>>,
       <<-1, 0>>, <<-1, -1>>, <<0, -1>>, <<1, -1>> >>

\* Marker for an entry of np.empty that was never written.
Unset == -1

----------------------------------------------------------------------------
(* Plain helpers for Python lists. *)

Range(s) == {s[k] : k \in 1..Len(s)}

\* Python's s[k] for a 0-based k that is in range.
At(s, k) == s[k + 1]

RECURSIVE SumSeq(_)
SumSeq(s) == IF s = <<>> THEN 0 ELSE Head(s) + SumSeq(Tail(s))

\* Mutant of argmin: the position of the last smallest element.
argmin_Last(s) ==
    (CHOOSE k \in 1..Len(s) :
        /\ \A m \in 1..Len(s) : s[k] <= s[m]
        /\ \A m \in (k + 1)..Len(s) : s[m] > s[k]) - 1

\* np.argmin: 0-based position of the first smallest element.
argmin(s) ==
    (CHOOSE k \in 1..Len(s) :
        /\ \A m \in 1..Len(s) : s[k] <= s[m]
        /\ \A m \in 1..(k - 1) : s[m] > s[k]) - 1

\* np.argmax: 0-based position of the first largest element.
argmax(s) ==
    (CHOOSE k \in 1..Len(s) :
        /\ \A m \in 1..Len(s) : s[k] >= s[m]
        /\ \A m \in 1..(k - 1) : s[m] < s[k]) - 1

\* The elements of the set S of integers as an ascending sequence.
RECURSIVE Ascending(_)
Ascending(S) ==
    IF S = {} THEN <<>>
    ELSE LET m == CHOOSE x \in S : \A y \in S : x <= y
         IN  <<m>> \o Ascending(S \ {m})

Reverse(s) == [k \in 1..Len(s) |-> s[Len(s) + 1 - k]]

----------------------------------------------------------------------------
(* Site and Lattice. *)

\* Site.__init__ without keyword arguments: _attributes is the empty dict
\* (a set of <<key, value>> pairs).
Site(idx, pos, neighbours, hopping) ==
    [idx |-> idx, pos |-> pos, neighbours |-> neighbours, hopping |-> hopping,
     attributes |-> {}]

\* Site.__setitem__: self._attributes[attr] = value
Site_setitem(site, attr, value) ==
    [site EXCEPT !.attributes = {p \in @ : p[1] # attr} \cup {<<attr, value>>}]

\* [1]*n
Ones(n) == [k \in 1..n |-> 1]

\* Lattice.centre: sum(site.pos)/len(sites), kept as the exact fraction
\* <<sum of x, sum of y, number of sites>>.
centre(ss) ==
    << SumSeq([k \in 1..Len(ss) |-> ss[k].pos[1]]),
       SumSeq([k \in 1..Len(ss) |-> ss[k].pos[2]]),
       Len(ss) >>

\* np.linalg.norm(cen - p), as N^2 times its square (N = cen[3]).
norm(cen, p) ==
    (cen[1] - cen[3] * p[1]) * (cen[1] - cen[3] * p[1])
  + (cen[2] - cen[3] * p[2]) * (cen[2] - cen[3] * p[2])

\* np.arctan2(p[1], p[0]) in units of pi/4, for p on a compass direction.
arctan2(p) ==
    CASE p[1] > 0 /\ p[2] = 0 -> 0
      [] p[1] > 0 /\ p[2] > 0 -> 1
      [] p[1] = 0 /\ p[2] > 0 -> 2
      [] p[1] < 0 /\ p[2] > 0 -> 3
      [] p[1] < 0 /\ p[2] = 0 -> 4
      [] p[1] < 0 /\ p[2] < 0 -> -3
      [] p[1] = 0 /\ p[2] < 0 -> -2
      [] p[1] > 0 /\ p[2] < 0 -> -1
      [] OTHER -> 0

\* angle(p1, p2) in units of pi/4: (a2 - a1 + pi) % (2 pi) - pi.
angle(p1, p2) == ((arctan2(p2) - arctan2(p1) + 4) % 8) - 4

\* select_innermost: position in the list pos of the site closest to centre.
select_innermost(pos, cen) ==
    argmin([k \in 1..Len(pos) |-> norm(cen, pos[k])])

\* select_anticlockwise: position in pos of the next site anticlockwise.
select_anticlockwise(pos, curpos) ==
    argmax([k \in 1..Len(pos) |-> angle(curpos, pos[k])])

\* select_next: the selected position, or raised = TRUE for the KeyError.
select_next(m, pos, cursite, cen) ==
    IF m = "innermost"
    THEN [raised |-> FALSE, value |-> select_innermost(pos, cen)]
    ELSE IF m = "anticlockwise"
    THEN [raised |-> FALSE, value |-> select_anticlockwise(pos, cursite.pos)]
    ELSE [raised |-> TRUE, value |-> 0]

\* Mutant of SiteRelabel: the neighbour ids are not relabelled.
SiteRelabel_KeepsNeighbours(site, lab) ==
    [site EXCEPT !.idx = At(lab, site.idx)]

\* Mutant of SiteRelabel: the site is built anew from its relabelled index
\* and neighbour ids, without its attributes.
SiteRelabel_Rebuilds(site, lab) ==
    Site(At(lab, site.idx), site.pos,
         [k \in 1..Len(site.neighbours) |-> At(lab, site.neighbours[k])],
         site.hopping)

\* Site.relabel: index i is replaced by labels[i].
SiteRelabel(site, lab) ==
    [site EXCEPT !.idx = At(lab, site.idx),
                 !.neighbours = [k \in 1..Len(site.neighbours) |->
                                    At(lab, site.neighbours[k])]]

\* Mutant of SortByIdx: the sites are sorted by descending index.
RECURSIVE SortByIdx_Descending(_)
SortByIdx_Descending(ss) ==
    IF ss = <<>> THEN <<>>
    ELSE LET k == CHOOSE a \in 1..Len(ss) :
                     /\ \A b \in 1..Len(ss) : ss[a].idx >= ss[b].idx
                     /\ \A b \in 1..(a - 1) : ss[b].idx < ss[a].idx
         IN  <<ss[k]>> \o SortByIdx_Descending(SubSeq(ss, 1, k - 1)
                                               \o SubSeq(ss, k + 1, Len(ss)))

\* Mutant of SortByIdx: the sites are left in their old storage order.
SortByIdx_NoSort(ss) == ss

\* list.sort(key=lambda site: site.idx): stable, ascending by idx.
RECURSIVE SortByIdx(_)
SortByIdx(ss) ==
    IF ss = <<>> THEN <<>>
    ELSE LET k == CHOOSE a \in 1..Len(ss) :
                     /\ \A b \in 1..Len(ss) : ss[a].idx <= ss[b].idx
                     /\ \A b \in 1..(a - 1) : ss[b].idx > ss[a].idx
         IN  <<ss[k]>> \o SortByIdx(SubSeq(ss, 1, k - 1) \o SubSeq(ss, k + 1, Len(ss)))

\* Lattice.relabel: relabel every site, then sort the sites by new index.
LatticeRelabel(ss, lab) ==
    SortByIdx([k \in 1..Len(ss) |-> SiteRelabel(ss[k], lab)])

\* Mutant of CheckConsistencyResult: neighbour ids are only checked to be in
\* [0, N), not to be a registered site index.
CheckConsistencyResult_RangeOnly(ss) ==
    /\ \A k \in 1..Len(ss) : ss[k].idx \in 0..(Len(ss) - 1)
    /\ \A k \in 1..Len(ss) :
          \A j \in 1..Len(ss[k].neighbours) :
             ss[k].neighbours[j] \in 0..(Len(ss) - 1)

\* Lattice.check_consistency: FALSE at the first site index out of range,
\* else FALSE at the first neighbour id that is no registered index.
CheckConsistencyResult(ss) ==
    LET idxs == {ss[k].idx : k \in 1..Len(ss)}
    IN  IF \E k \in 1..Len(ss) : ss[k].idx >= Len(ss) \/ ss[k].idx < 0
        THEN FALSE
        ELSE \A k \in 1..Len(ss) :
                \A j \in 1..Len(ss[k].neighbours) : ss[k].neighbours[j] \in idxs

\* label_graph, lines 144-151: distances to the centre and the start site.
radii(ss) == [k \in 1..Len(ss) |-> norm(centre(ss), ss[k].pos)]

StartSite(ss) == argmin(radii(ss))

\* Mutant of UnvisitedIdx: the visited flags are not consulted.
UnvisitedIdx_IgnoresVisited(ss, vis, c) ==
    Ascending(0..(Len(At(ss, c).neighbours) - 1))

\* label_graph, lines 157-159: the positions j in the neighbour list of
\* sites[c] whose neighbour n is not visited (n is used as a storage
\* position: visited[n], sites[n]).
UnvisitedIdx(ss, vis, c) ==
    LET nb == At(ss, c).neighbours
    IN  Ascending({j \in 0..(Len(nb) - 1) : ~At(vis, At(nb, j))})

UnvisitedPos(ss, vis, c) ==
    LET nb  == At(ss, c).neighbours
        idx == UnvisitedIdx(ss, vis, c)
    IN  [k \in 1..Len(idx) |-> At(ss, At(nb, idx[k])).pos]

\* label_graph, lines 165-166: the site the walk moves to.
NextSite(ss, vis, c, m) ==
    LET nb  == At(ss, c).neighbours
        idx == UnvisitedIdx(ss, vis, c)
        sel == select_next(m, UnvisitedPos(ss, vis, c), At(ss, c), centre(ss))
    IN  At(nb, At(idx, sel.value))

\* label_graph, line 162: the count formatted into the RuntimeError.
StuckCount(i) == i + 1

\* label_graph, lines 154-169: the loop from iteration i on. The result is
\* [raised |-> "none", labels |-> the array returned] or, when an exception
\* ends the call, [raised |-> its type, labels |-> <<>>].
RECURSIVE Walk(_, _, _, _, _, _)
Walk(ss, m, c, vis, lab, i) ==
    IF i >= Len(ss) THEN [raised |-> "none", labels |-> lab]
    ELSE IF UnvisitedIdx(ss, vis, c) = <<>>
    THEN [raised |-> "RuntimeError", labels |-> <<>>]
    ELSE IF select_next(m, UnvisitedPos(ss, vis, c), At(ss, c), centre(ss)).raised
    THEN [raised |-> "KeyError", labels |-> <<>>]
    ELSE LET next == NextSite(ss, vis, c, m)
         IN  Walk(ss, m, next, [vis EXCEPT ![next + 1] = TRUE],
                  [lab EXCEPT ![next + 1] = i], i + 1)

\* Lattice.label_graph(method) as one function of the lattice.
label_graph(ss, m) ==
    LET start == StartSite(ss)
    IN  Walk(ss, m, start,
             [k \in 1..Len(ss) |-> k = start + 1],
             [k \in 1..Len(ss) |-> IF k = start + 1 THEN 0 ELSE Unset], 1)

----------------------------------------------------------------------------
(* The lattices a run starts from. *)

\* The largest odd divisor of n.
RECURSIVE OddPart(_)
OddPart(n) == IF n % 2 = 0 THEN OddPart(n \div 2) ELSE n

\* The centre sum(pos)/n is exact in binary floating point.
ExactCentre(pos) ==
    LET n == Len(pos)
    IN  /\ SumSeq([k \in 1..n |-> pos[k][1]]) % OddPart(n) = 0
        /\ SumSeq([k \in 1..n |-> pos[k][2]]) % OddPart(n) = 0

\* All undirected edges between n sites, as two-element sets of indices.
Pairs(n) == {e \in SUBSET (0..(n - 1)) : Cardinality(e) = 2}

\* The edges of the cycle 0 - 1 - ... - (n-1) - 0.
CycleEdges(n) == {{k, (k + 1) % n} : k \in 0..(n - 1)}

\* A lattice as a generator builds it: site k is stored at position k, its
\* neighbour list holds the other end of every edge at k, ascending or
\* descending.
BuildLattice(pos, edges, descending) ==
    [k \in 1..Len(pos) |->
        LET nb == Ascending({b \in 0..(Len(pos) - 1) : {k - 1, b} \in edges})
        IN  Site(k - 1, pos[k], IF descending THEN Reverse(nb) ELSE nb,
                 Ones(Len(nb)))]

\* Storage orders: as built (index = storage position) and rotated by one
\* (no site at the position of its index, as a file may list the sites).
StorageOrders(n) ==
    { [k \in 1..n |-> k],
      [k \in 1..n |-> (k % n) + 1] }

\* The lattice as a caller may fill it in: every site carries the attribute
\* "tag" (its index at construction) and the hopping to neighbour b is b + 1,
\* so that hoppings and attributes tell the sites and the edges apart.
WithData(ss) ==
    [k \in 1..Len(ss) |->
        Site_setitem([ss[k] EXCEPT !.hopping =
                          [m \in 1..Len(ss[k].neighbours) |->
                              ss[k].neighbours[m] + 1]],
                     "tag", ss[k].idx)]

\* Names, comments and nt values of the lattices used as library objects.
Metas == {[name |-> "", comment |-> "", nt |-> 0],
          [name |-> "ribbon", comment |-> "c", nt |-> 8]}

\* The same sites stored in another order (indices unchanged).
Stored(ss, order) == [k \in 1..Len(ss) |-> ss[order[k]]]

\* Positions of a ring: the compass directions dirs, taken anticlockwise
\* (or clockwise) from the rot-th one.
RingPositions(dirs, rot, clockwise) ==
    LET d == Ascending(dirs)
        n == Len(d)
    IN  [k \in 1..n |->
            Compass[d[(((IF clockwise THEN n - (k - 1) ELSE k - 1) + rot) % n) + 1]]]

----------------------------------------------------------------------------
(* State. *)

VARIABLES
    sites,       \* Lattice.sites, in storage order
    orig,        \* the lattice as it was built or loaded
    method,      \* args.method
    pc,          \* "loaded", "checked", "idle", "walk", "returned", "error"
    consistent,  \* result of check_consistency (FALSE while pc = "loaded")
    cur,         \* label_graph: current site
    visited,     \* label_graph: visited flags
    labels,      \* label_graph: new labels
    i,           \* label_graph: loop variable of the next iteration
    path,        \* the successive values of cur
    err,         \* exception raised by label_graph, "none" if none
    reported,    \* the count formatted into the RuntimeError message
    relabelled,  \* Lattice.relabel has been applied
    file,        \* content of the file written or to be read
    labelLat,    \* main: sites of the label lattice
    args,        \* command line arguments / generator parameters
    exitcode,    \* main: exit status, Running while main has not ended
    executed,    \* main: the steps carried out so far, in order
    meta         \* Lattice.name, Lattice.comment, Lattice.nt

vars == <<sites, orig, method, pc, consistent, cur, visited, labels, i, path,
          err, reported, relabelled, file, labelLat, args, exitcode, executed,
          meta>>

\* The variables of file I/O and of main, which the Lattice methods leave alone.
iovars == <<file, labelLat, args, exitcode, executed, meta>>

Running == -1

NoFile == [format |-> "none"]

NoArgs == [input |-> FALSE]

\* Lattice.__init__: name="", comment="", nt=0.
DefaultMeta == [name |-> "", comment |-> "", nt |-> 0]

\* No file and no command line: the lattice is used as a library object.
NoIO ==
    /\ file = NoFile
    /\ labelLat = <<>>
    /\ args = NoArgs
    /\ exitcode = Running
    /\ executed = <<>>
    /\ meta = DefaultMeta

NoWalk ==
    /\ cur = 0
    /\ visited = <<>>
    /\ labels = <<>>
    /\ i = 0
    /\ path = <<>>
    /\ err = "none"
    /\ reported = 0

\* Lattices of at most MaxN sites with an arbitrary symmetric neighbour graph
\* on distinct points.
GraphLattice ==
    \E n \in 1..MaxN :
        \E pos \in [1..n -> Points], edges \in SUBSET Pairs(n),
           descending \in BOOLEAN, order \in StorageOrders(n) :
            /\ \A a, b \in 1..n : a # b => pos[a] # pos[b]
            /\ ExactCentre(pos)
            /\ sites = WithData(Stored(BuildLattice(pos, edges, descending), order))

\* Ring lattices: 3..MaxRing sites on distinct compass directions, joined
\* into one cycle in angular order.
RingLattice ==
    \E dirs \in SUBSET (1..8), rot \in 0..(MaxRing - 1),
       clockwise \in BOOLEAN, descending \in BOOLEAN :
        /\ Cardinality(dirs) \in 3..MaxRing
        /\ rot < Cardinality(dirs)
        /\ LET pos == RingPositions(dirs, rot, clockwise)
           IN  /\ ExactCentre(pos)
               /\ \E order \in StorageOrders(Len(pos)) :
                     sites = WithData(Stored(BuildLattice(pos, CycleEdges(Len(pos)),
                                                          descending), order))

\* Four sites on distinct points, split into two disconnected pairs.
PairLattice ==
    \E pos \in [1..4 -> Points], order \in StorageOrders(4),
       edges \in {{{0, 1}, {2, 3}}, {{0, 2}, {1, 3}}, {{0, 3}, {1, 2}}} :
        /\ \A a, b \in 1..4 : a # b => pos[a] # pos[b]
        /\ sites = WithData(Stored(BuildLattice(pos, edges, FALSE), order))

\* The ring lattices come with and without a name, a comment and nt; the
\* other lattices are built by Lattice() with its defaults.
Init ==
    /\ \/ GraphLattice /\ meta = DefaultMeta
       \/ RingLattice /\ meta \in Metas
       \/ PairLattice /\ meta = DefaultMeta
    /\ orig = sites
    /\ method \in Methods
    /\ pc = "idle"
    /\ consistent = TRUE
    /\ relabelled = FALSE
    /\ NoWalk
    /\ file = NoFile
    /\ labelLat = <<>>
    /\ args = NoArgs
    /\ exitcode = Running
    /\ executed = <<>>

----------------------------------------------------------------------------
(* Lattice.label_graph, one action per loop iteration. *)

\* Lines 142-153: centre, radii, start site, label 0.
LabelGraphStart ==
    /\ pc = "idle"
    /\ \E start \in {StartSite(sites)} :
           /\ cur' = start
           /\ labels' = [k \in 1..Len(sites) |-> IF k = start + 1 THEN 0 ELSE Unset]
           /\ visited' = [k \in 1..Len(sites) |-> k = start + 1]
           /\ path' = <<start>>
    /\ i' = 1
    /\ pc' = "walk"
    /\ UNCHANGED <<sites, orig, method, consistent, err, reported, relabelled>>
    /\ UNCHANGED iovars

\* Mutant of LabelGraphStuck: the loop is left and the labels so far returned.
LabelGraphStuck_Returns ==
    /\ pc = "walk"
    /\ i < Len(sites)
    /\ UnvisitedIdx(sites, visited, cur) = <<>>
    /\ pc' = "returned"
    /\ UNCHANGED <<sites, orig, method, consistent, cur, visited, labels, i, path,
                   err, reported, relabelled>>
    /\ UNCHANGED iovars

\* Lines 155-162: no unvisited neighbour, RuntimeError.
LabelGraphStuck ==
    /\ pc = "walk"
    /\ i < Len(sites)
    /\ UnvisitedIdx(sites, visited, cur) = <<>>
    /\ pc' = "error"
    /\ err' = "RuntimeError"
    /\ reported' = StuckCount(i)
    /\ UNCHANGED <<sites, orig, method, consistent, cur, visited, labels, i, path,
                   relabelled>>
    /\ UNCHANGED iovars

\* Lines 165-166 with select_next raising KeyError.
LabelGraphUnknownMethod ==
    /\ pc = "walk"
    /\ i < Len(sites)
    /\ UnvisitedIdx(sites, visited, cur) # <<>>
    /\ select_next(method, UnvisitedPos(sites, visited, cur), At(sites, cur),
                   centre(sites)).raised
    /\ pc' = "error"
    /\ err' = "KeyError"
    /\ UNCHANGED <<sites, orig, method, consistent, cur, visited, labels, i, path,
                   reported, relabelled>>
    /\ UNCHANGED iovars

\* Lines 164-168: go to the next site and label it.
LabelGraphVisit ==
    /\ pc = "walk"
    /\ i < Len(sites)
    /\ UnvisitedIdx(sites, visited, cur) # <<>>
    /\ ~select_next(method, UnvisitedPos(sites, visited, cur), At(sites, cur),
                    centre(sites)).raised
    /\ \E next \in {NextSite(sites, visited, cur, method)} :
           /\ cur' = next
           /\ labels' = [labels EXCEPT ![next + 1] = i]
           /\ visited' = [visited EXCEPT ![next + 1] = TRUE]
           /\ path' = Append(path, next)
    /\ i' = i + 1
    /\ UNCHANGED <<sites, orig, method, pc, consistent, err, reported, relabelled>>
    /\ UNCHANGED iovars

\* Line 169: the loop has ended, return labels.
LabelGraphReturn ==
    /\ pc = "walk"
    /\ i >= Len(sites)
    /\ pc' = "returned"
    /\ UNCHANGED <<sites, orig, method, consistent, cur, visited, labels, i, path,
                   err, reported, relabelled>>
    /\ UNCHANGED iovars

\* Lattice.relabel(labels) with the labels label_graph returned.
Relabel ==
    /\ pc = "returned"
    /\ sites' = LatticeRelabel(sites, labels)
    /\ relabelled' = TRUE
    /\ pc' = "idle"
    /\ cur' = 0
    /\ visited' = <<>>
    /\ labels' = <<>>
    /\ i' = 0
    /\ path' = <<>>
    /\ err' = "none"
    /\ reported' = 0
    /\ UNCHANGED <<orig, method, consistent>>
    /\ UNCHANGED iovars

Next ==
    \/ LabelGraphStart
    \/ LabelGraphStuck
    \/ LabelGraphUnknownMethod
    \/ LabelGraphVisit
    \/ LabelGraphReturn
    \/ Relabel

Spec == Init /\ [][Next]_vars

----------------------------------------------------------------------------
(* Lattice.check_consistency on lattices as a file may hold them. *)

\* A lattice as loaded from a file whose content is wrong in one place: the
\* index of the k-th stored site is v, or v is appended to its neighbours.
Damaged(ss, kind, k, v) ==
    CASE kind = "idx" -> [ss EXCEPT ![k].idx = v]
      [] kind = "neighbour" -> [ss EXCEPT ![k].neighbours = Append(@, v)]
      [] OTHER -> ss

LoadedLattice ==
    \E n \in 1..MaxN :
        \E edges \in SUBSET Pairs(n), descending \in BOOLEAN,
           order \in StorageOrders(n), kind \in {"none", "idx", "neighbour"},
           k \in 1..n, v \in (-1)..(n + 1) :
            sites = Damaged(Stored(BuildLattice([j \in 1..n |-> Compass[j]],
                                                edges, descending), order),
                            kind, k, v)

InitCheck ==
    /\ LoadedLattice
    /\ orig = sites
    /\ method \in Methods
    /\ pc = "loaded"
    /\ consistent = FALSE
    /\ relabelled = FALSE
    /\ NoWalk
    /\ NoIO

\* lat.check_consistency() on the loaded lattice.
CheckConsistency ==
    /\ pc = "loaded"
    /\ consistent' = CheckConsistencyResult(sites)
    /\ pc' = "checked"
    /\ UNCHANGED <<sites, orig, method, cur, visited, labels, i, path, err,
                   reported, relabelled>>
    /\ UNCHANGED iovars

NextCheck == CheckConsistency

SpecCheck == InitCheck /\ [][NextCheck]_vars

----------------------------------------------------------------------------
(* File formats (src/fileio.py).  A file is modelled by its parsed content:  *)
(* a writegraph file by its header tag and its lines of whitespace-separated *)
(* numbers, a YAML file by the fields of its !lattice node.  Coordinates are *)
(* integers here; str() and float() map them to themselves.                  *)

\* Largest number of positions and of adjacency pairs of a hand-written
\* !lattice node.
MaxPos == 2

MaxAdj == 3

Suffixes == {".yaml", ".w2d", ".w3d", ".txt"}

Raise(e) == [raised |-> e]

\* Python's list[k]: valid for -n <= k < n, negative k counting from the end.
PyInRange(k, n) == -n <= k /\ k < n

PyPos(k, n) == IF k < 0 THEN k + n ELSE k

Min(a, b) == IF a < b THEN a ELSE b

RECURSIVE Concat(_)
Concat(ss) == IF ss = <<>> THEN <<>> ELSE Head(ss) \o Concat(Tail(ss))

\* write_wnd: the header tag carries len(lat.sites[0].pos); one line per site
\* with idx+1, the coordinates and the neighbour ids + 1.
write_wnd(ss) ==
    IF ss = <<>>
    THEN Raise("IndexError")
    ELSE [raised |-> "none",
          content |->
             [format |-> "wnd",
              header |-> Len(ss[1].pos),
              lines |-> [k \in 1..Len(ss) |->
                           <<ss[k].idx + 1>> \o ss[k].pos \o
                           [m \in 1..Len(ss[k].neighbours) |->
                               ss[k].neighbours[m] + 1]]]]

\* Mutant of ParseWndLine: the neighbour ids are kept 1-based.
ParseWndLine_OneBased(numbers, d) ==
    <<numbers[1] - 1,
      SubSeq(numbers, 2, d + 1),
      SubSeq(numbers, d + 2, Len(numbers))>>

\* read_w2d / read_w3d, lines 36-39 and 59-62: a line is split into
\* (index - 1, d coordinates, remaining numbers - 1).
ParseWndLine(numbers, d) ==
    <<numbers[1] - 1,
      SubSeq(numbers, 2, d + 1),
      [m \in 1..(Len(numbers) - d - 1) |-> numbers[m + d + 1] - 1]>>

\* _wnd_to_lattice: every hopping is 1.
wnd_to_lattice(graph) ==
    [k \in 1..Len(graph) |->
        Site(graph[k][1], graph[k][2], graph[k][3], Ones(Len(graph[k][3])))]

\* read_w2d (d = 2) and read_w3d (d = 3).
read_wnd(content, d) ==
    IF content.header # d
    THEN Raise("RuntimeError")
    ELSE [raised |-> "none",
          sites |-> wnd_to_lattice([k \in 1..Len(content.lines) |->
                                      ParseWndLine(content.lines[k], d)]),
          meta |-> DefaultMeta]

\* The (pair, hopping) entries _yaml_represent_lattice collects at one site.
SiteEntries(site) ==
    SelectSeq([m \in 1..Min(Len(site.neighbours), Len(site.hopping)) |->
                  [pair |-> <<site.idx, site.neighbours[m]>>,
                   hop |-> site.hopping[m]]],
              LAMBDA e : e.pair[2] > e.pair[1])

\* _yaml_represent_lattice: zip(*[]) cannot be unpacked into adj, hopping.
yaml_represent_lattice(ss, m) ==
    LET entries == Concat([k \in 1..Len(ss) |-> SiteEntries(ss[k])])
    IN  IF entries = <<>>
        THEN Raise("ValueError")
        ELSE [raised |-> "none",
              content |->
                 [format |-> "yaml",
                  name |-> m.name, comment |-> m.comment, nt |-> m.nt,
                  adjacency |-> [k \in 1..Len(entries) |-> entries[k].pair],
                  hopping |-> [islist |-> TRUE,
                               value |-> [k \in 1..Len(entries) |-> entries[k].hop]],
                  positions |-> [k \in 1..Len(ss) |-> ss[k].pos]]]

\* Mutant of append_adj_hop: the connection is appended unconditionally.
append_adj_hop_Always(site, neigh, hop) ==
    [site EXCEPT !.neighbours = Append(@, neigh), !.hopping = Append(@, hop)]

\* _append_adj_hop
append_adj_hop(site, neigh, hop) ==
    IF neigh \in Range(site.neighbours)
    THEN site
    ELSE [site EXCEPT !.neighbours = Append(@, neigh), !.hopping = Append(@, hop)]

\* _parse_yaml, lines 108-113, from the k-th pair on; nhop is len(hopping).
RECURSIVE FillNeighbours(_, _, _, _, _)
FillNeighbours(ss, adjacency, hopping, nhop, k) ==
    IF k > Min(Len(adjacency), Len(hopping))
    THEN [raised |-> "none", sites |-> ss]
    ELSE LET a == adjacency[k][1]
             b == adjacency[k][2]
             n == Len(ss)
         IN  IF a > nhop \/ b > nhop
             THEN Raise("RuntimeError")
             ELSE IF ~PyInRange(a, n)
             THEN Raise("IndexError")
             ELSE LET s1 == [ss EXCEPT ![PyPos(a, n) + 1] =
                                append_adj_hop(@, b, hopping[k])]
                  IN  IF ~PyInRange(b, n)
                      THEN Raise("IndexError")
                      ELSE FillNeighbours(
                              [s1 EXCEPT ![PyPos(b, n) + 1] =
                                  append_adj_hop(@, a, hopping[k])],
                              adjacency, hopping, nhop, k + 1)

\* _parse_yaml
parse_yaml(content) ==
    LET hopping == IF content.hopping.islist
                   THEN content.hopping.value
                   ELSE [k \in 1..Len(content.adjacency) |-> content.hopping.value]
    IN  IF content.hopping.islist
           /\ Len(content.adjacency) # Len(content.hopping.value)
        THEN Raise("RuntimeError")
        ELSE LET r == FillNeighbours(
                         [k \in 1..Len(content.positions) |->
                             Site(k - 1, content.positions[k], <<>>, <<>>)],
                         content.adjacency, hopping, Len(hopping), 1)
             IN  IF r.raised # "none"
                 THEN r
                 ELSE [raised |-> "none", sites |-> r.sites,
                       meta |-> [name |-> content.name,
                                 comment |-> content.comment,
                                 nt |-> content.nt]]

\* fileio.write: the format is chosen by the suffix.
write(suffix, ss, m) ==
    CASE suffix \in {".yaml", ".yml"} -> yaml_represent_lattice(ss, m)
      [] suffix \in {".w3d", ".w2d"} -> write_wnd(ss)
      [] OTHER -> Raise("ValueError")

\* fileio.read
read(suffix, content) ==
    CASE suffix \in {".yaml", ".yml"} -> parse_yaml(content)
      [] suffix = ".w3d" -> read_wnd(content, 3)
      [] suffix = ".w2d" -> read_wnd(content, 2)
      [] OTHER -> Raise("ValueError")

\* A lattice in memory: up to MaxN sites of dimension 2 or 3, any neighbour
\* lists without self-loop (an edge may be stored at one end only), every
\* hopping equal to hop, stored in or out of index order.
BuiltLattice ==
    \E n \in 0..MaxN :
        \E nb \in [1..n -> SUBSET (0..(n - 1))], dim \in {2, 3},
           hop \in {1, 2}, order \in StorageOrders(n) :
            /\ \A k \in 1..n : (k - 1) \notin nb[k]
            /\ sites = Stored([k \in 1..n |->
                                 LET l == Ascending(nb[k])
                                 IN  Site(k - 1,
                                          IF dim = 2 THEN Compass[k]
                                          ELSE Compass[k] \o <<0>>,
                                          l, [m \in 1..Len(l) |-> hop])],
                              order)

\* The hopping field of a hand-written node: one scalar, a list with one
\* value per pair (the k-th is k), or a list that is one value short.
NodeHopping(kind, n) ==
    CASE kind = "scalar" -> [islist |-> FALSE, value |-> 5]
      [] kind = "list" -> [islist |-> TRUE, value |-> [k \in 1..n |-> k]]
      [] OTHER -> [islist |-> TRUE, value |-> [k \in 1..(n + 1) |-> k]]

\* A hand-written !lattice node: up to MaxPos positions, up to MaxAdj pairs
\* of indices between -1 and the number of positions.
GivenNode ==
    \E n \in 1..MaxPos, len \in 0..MaxAdj :
        \E adjacency \in [1..len -> ((-1)..n) \X ((-1)..n)],
           kind \in {"scalar", "list", "mismatch"} :
            file = [format |-> "yaml", name |-> "", comment |-> "", nt |-> 0,
                    adjacency |-> adjacency,
                    hopping |-> NodeHopping(kind, len),
                    positions |-> [k \in 1..n |-> Compass[k]]]

InitIO ==
    /\ \/ /\ BuiltLattice
          /\ file = NoFile
          /\ pc = "built"
          /\ args \in [input : {FALSE}, suffix : Suffixes]
          /\ meta \in {DefaultMeta, [name |-> "ribbon", comment |-> "c", nt |-> 8]}
       \/ /\ GivenNode
          /\ sites = <<>>
          /\ pc = "file"
          /\ args = [input |-> TRUE, suffix |-> ".yaml"]
          /\ meta = DefaultMeta
    /\ orig = sites
    /\ method = "anticlockwise"
    /\ consistent = TRUE
    /\ relabelled = FALSE
    /\ NoWalk
    /\ labelLat = <<>>
    /\ exitcode = Running
    /\ executed = <<>>

\* fileio.write(fname, lat)
FileioWrite ==
    /\ pc = "built"
    /\ \E w \in {write(args.suffix, sites, meta)} :
          IF w.raised # "none"
          THEN /\ pc' = "error"
               /\ err' = w.raised
               /\ file' = file
          ELSE /\ pc' = "written"
               /\ err' = err
               /\ file' = w.content
    /\ UNCHANGED <<sites, orig, method, consistent, cur, visited, labels, i,
                   path, reported, relabelled, labelLat, args, exitcode,
                   executed, meta>>

\* lat = fileio.read(fname)
FileioRead ==
    /\ pc \in {"written", "file"}
    /\ \E r \in {read(args.suffix, file)} :
          IF r.raised # "none"
          THEN /\ pc' = "error"
               /\ err' = r.raised
               /\ UNCHANGED <<sites, meta>>
          ELSE /\ pc' = "read"
               /\ err' = err
               /\ sites' = r.sites
               /\ meta' = r.meta
    /\ UNCHANGED <<orig, method, consistent, cur, visited, labels, i, path,
                   reported, relabelled, file, labelLat, args, exitcode,
                   executed>>

NextIO ==
    \/ FileioWrite
    \/ FileioRead

SpecIO == InitIO /\ [][NextIO]_vars

----------------------------------------------------------------------------
(* main (src/latgraph.py).  The files named on the command line are given by *)
(* the lattices fileio.read returns for them.                                *)

\* Largest number of sites of the primary lattice of main.
MaxLat == 2

\* Positions of the lattices given to main: points of a line.
LinePositions(n) == SubSeq(<<<<0, 0>>, <<1, 0>>, <<-1, 0>>, <<2, 0>>, <<-2, 0>>>>, 1, n)

\* A lattice of n sites as a file holds it: sound, or with the index of its
\* first stored site or an extra neighbour id equal to n.
FileLattice(n, edges, order, kind) ==
    Damaged(Stored(BuildLattice(LinePositions(n), edges, FALSE), order),
            kind, 1, n)

\* Mutant of load_lattice_exits: the result of the check is ignored.
load_lattice_exits_Never(ss) == FALSE

\* load_lattice, lines 117-119: sys.exit(1) iff the check fails.
load_lattice_exits(ss) == ~CheckConsistencyResult(ss)

\* show_lattice(lat, labels): lat.sites[0], lat.sites[neigh] for
\* neigh > site.idx, labels[site.idx].
show_lattice(ss, nlabels) ==
    IF ss = <<>>
    THEN Raise("IndexError")
    ELSE IF \E k \in 1..Len(ss) :
               \/ \E m \in 1..Len(ss[k].neighbours) :
                     /\ ss[k].neighbours[m] > ss[k].idx
                     /\ ~PyInRange(ss[k].neighbours[m], Len(ss))
               \/ ~PyInRange(ss[k].idx, nlabels)
    THEN Raise("IndexError")
    ELSE [raised |-> "none"]

\* lat.relabel(labels) in main: labels[...] raises IndexError outside the
\* label array.
relabel(ss, lab) ==
    IF \E k \in 1..Len(ss) :
          \/ ~PyInRange(ss[k].idx, Len(lab))
          \/ \E m \in 1..Len(ss[k].neighbours) :
                ~PyInRange(ss[k].neighbours[m], Len(lab))
    THEN Raise("IndexError")
    ELSE [raised |-> "none",
          sites |-> LatticeRelabel(
                       [k \in 1..Len(ss) |->
                          [ss[k] EXCEPT
                             !.idx = PyPos(@, Len(lab)),
                             !.neighbours = [m \in 1..Len(@) |->
                                               PyPos(@[m], Len(lab))]]],
                       lab)]

\* The statement main goes to after the named one, skipping the `if`s whose
\* condition is false.
AfterWrite(a) ==
    IF a.plot \/ a.plot_labels \/ a.plot_adjacency THEN "show" ELSE "return"

AfterPlotAdjacency(a) == IF a.output # "" THEN "write" ELSE AfterWrite(a)

AfterPlot(a) == IF a.plot_adjacency THEN "plot_adjacency" ELSE AfterPlotAdjacency(a)

AfterRelabel(a) == IF a.plot THEN "plot" ELSE AfterPlot(a)

AfterLoad(a) == IF a.labels THEN "load_labels" ELSE AfterRelabel(a)

InitMain ==
    /\ \E n \in 1..MaxLat :
          \E edges \in SUBSET Pairs(n), order \in StorageOrders(n),
             kind \in {"none", "idx", "neighbour"} :
              sites = FileLattice(n, edges, order, kind)
    /\ orig = sites
    /\ args \in [input : BOOLEAN, labels : BOOLEAN, plot : BOOLEAN,
                 plot_labels : BOOLEAN, plot_adjacency : BOOLEAN,
                 output : {"", ".w2d"}]
    /\ Cardinality({f \in {"plot", "plot_labels", "plot_adjacency"} : args[f]}) <= 1
    /\ IF args.labels
       THEN \E n \in 1..MaxN :
               \E edges \in SUBSET Pairs(n),
                  kind \in {"none", "idx", "neighbour"} :
                   /\ ExactCentre(LinePositions(n))
                   /\ labelLat = FileLattice(n, edges, [k \in 1..n |-> k], kind)
       ELSE labelLat = <<>>
    /\ method \in {"anticlockwise", "innermost"}
    /\ pc = "start"
    /\ consistent = TRUE
    /\ relabelled = FALSE
    /\ NoWalk
    /\ file = NoFile
    /\ exitcode = Running
    /\ executed = <<>>
    /\ meta = DefaultMeta

\* sys.exit(status), or an exception that nothing catches (status 1).
Exit(status, e) ==
    /\ exitcode' = status
    /\ err' = e
    /\ pc' = "exited"

\* Lines 130-131: lat = load_lattice(args.input).
MainLoadInput ==
    /\ pc = "start"
    /\ args.input
    /\ consistent' = CheckConsistencyResult(sites)
    /\ executed' = Append(executed, "check_input")
    /\ IF load_lattice_exits(sites)
       THEN Exit(1, "SystemExit") /\ meta' = meta
       ELSE /\ pc' = AfterLoad(args)
            /\ meta' = IF meta.name = "" THEN [meta EXCEPT !.name = "infile"] ELSE meta
            /\ UNCHANGED <<exitcode, err>>
    /\ UNCHANGED <<sites, orig, method, cur, visited, labels, i, path,
                   reported, relabelled, file, labelLat, args>>

\* Lines 132-133: lat = generate_lattice(...); the generator's lattice is
\* not checked by main.
MainGenerate ==
    /\ pc = "start"
    /\ ~args.input
    /\ executed' = Append(executed, "generate")
    /\ pc' = AfterLoad(args)
    /\ UNCHANGED <<sites, orig, method, consistent, cur, visited, labels, i,
                   path, err, reported, relabelled, file, labelLat, args,
                   exitcode, meta>>

\* Lines 136-139: labelLat = fileio.read(args.labels) and its check.
MainLoadLabels ==
    /\ pc = "load_labels"
    /\ consistent' = CheckConsistencyResult(labelLat)
    /\ executed' = Append(executed, "check_labels")
    /\ IF load_lattice_exits(labelLat)
       THEN Exit(1, "SystemExit")
       ELSE pc' = "label_graph" /\ UNCHANGED <<exitcode, err>>
    /\ UNCHANGED <<sites, orig, method, cur, visited, labels, i, path,
                   reported, relabelled, file, labelLat, args, meta>>

\* Line 140: labels = labelLat.label_graph(args.method).
MainLabelGraph ==
    /\ pc = "label_graph"
    /\ executed' = Append(executed, "label_graph")
    /\ \E r \in {label_graph(labelLat, method)} :
          IF r.raised # "none"
          THEN Exit(1, r.raised) /\ labels' = labels
          ELSE /\ labels' = r.labels
               /\ pc' = IF args.plot_labels THEN "plot_labels" ELSE "relabel"
               /\ UNCHANGED <<exitcode, err>>
    /\ UNCHANGED <<sites, orig, method, consistent, cur, visited, i, path,
                   reported, relabelled, file, labelLat, args, meta>>

\* Lines 142-143: show_lattice is called with three positional arguments and
\* takes two.
MainPlotLabels ==
    /\ pc = "plot_labels"
    /\ Exit(1, "TypeError")
    /\ UNCHANGED <<sites, orig, method, consistent, cur, visited, labels, i,
                   path, reported, relabelled, file, labelLat, args, executed,
                   meta>>

\* Line 145: lat.relabel(labels).
MainRelabel ==
    /\ pc = "relabel"
    /\ executed' = Append(executed, "relabel")
    /\ \E r \in {relabel(sites, labels)} :
          IF r.raised # "none"
          THEN Exit(1, r.raised) /\ UNCHANGED <<sites, relabelled>>
          ELSE /\ sites' = r.sites
               /\ relabelled' = TRUE
               /\ pc' = AfterRelabel(args)
               /\ UNCHANGED <<exitcode, err>>
    /\ UNCHANGED <<orig, method, consistent, cur, visited, labels, i, path,
                   reported, file, labelLat, args, meta>>

\* Lines 147-151: show_lattice(lat, labels) or show_lattice(lat, np.arange).
MainPlot ==
    /\ pc = "plot"
    /\ executed' = Append(executed, "plot")
    /\ \E r \in {show_lattice(sites, IF args.labels THEN Len(labels)
                                     ELSE Len(sites))} :
          IF r.raised # "none"
          THEN Exit(1, r.raised)
          ELSE pc' = AfterPlot(args) /\ UNCHANGED <<exitcode, err>>
    /\ UNCHANGED <<sites, orig, method, consistent, cur, visited, labels, i,
                   path, reported, relabelled, file, labelLat, args, meta>>

\* Lines 153-154: args.infile does not exist (the option is `input`).
MainPlotAdjacency ==
    /\ pc = "plot_adjacency"
    /\ Exit(1, "AttributeError")
    /\ UNCHANGED <<sites, orig, method, consistent, cur, visited, labels, i,
                   path, reported, relabelled, file, labelLat, args, executed,
                   meta>>

\* Lines 156-157: fileio.write(args.output, lat).
MainWrite ==
    /\ pc = "write"
    /\ executed' = Append(executed, "write")
    /\ \E w \in {write(args.output, sites, meta)} :
          IF w.raised # "none"
          THEN Exit(1, w.raised) /\ file' = file
          ELSE /\ file' = w.content
               /\ pc' = AfterWrite(args)
               /\ UNCHANGED <<exitcode, err>>
    /\ UNCHANGED <<sites, orig, method, consistent, cur, visited, labels, i,
                   path, reported, relabelled, labelLat, args, meta>>

\* Lines 159-160: plt.show().
MainShow ==
    /\ pc = "show"
    /\ executed' = Append(executed, "show")
    /\ pc' = "return"
    /\ UNCHANGED <<sites, orig, method, consistent, cur, visited, labels, i,
                   path, err, reported, relabelled, file, labelLat, args,
                   exitcode, meta>>

\* main returns: exit status 0.
MainReturn ==
    /\ pc = "return"
    /\ Exit(0, err)
    /\ UNCHANGED <<sites, orig, method, consistent, cur, visited, labels, i,
                   path, reported, relabelled, file, labelLat, args, executed,
                   meta>>

NextMain ==
    \/ MainLoadInput
    \/ MainGenerate
    \/ MainLoadLabels
    \/ MainLabelGraph
    \/ MainPlotLabels
    \/ MainRelabel
    \/ MainPlot
    \/ MainPlotAdjacency
    \/ MainWrite
    \/ MainShow
    \/ MainReturn

SpecMain == InitMain /\ [][NextMain]_vars

----------------------------------------------------------------------------
(* Geometry generators (src/pyramidgen.py, src/trianglegen.py,               *)
(* src/zgnrgen.py, src/agnrgen.py) with spacing 1.  Positions are kept      *)
(* exact: a coordinate is counted in the unit named at its generator.        *)

\* Largest value of a generator parameter.
MaxGen == 5

\* pyramidgen._borders: the borders the site lies on, as a set of letters.
\* Mutant: the right border is not recognised.
borders_NoRight(row, col, nx, ny, base_row) ==
    (IF row = 0 THEN {"t"} ELSE IF row = 2 * ny THEN {"b"} ELSE {})
    \cup (IF base_row /\ col = 0 THEN {"l"} ELSE {})

\* pyramidgen._borders
borders(row, col, nx, ny, base_row) ==
    (IF row = 0 THEN {"t"} ELSE IF row = 2 * ny THEN {"b"} ELSE {})
    \cup (IF base_row
          THEN (IF col = 0 THEN {"l"} ELSE IF col = nx THEN {"r"} ELSE {})
          ELSE {})

\* pyramidgen._neighbour_indices_of: the shifts whose direction crosses no
\* border, in the order of index_shifts.
neighbour_indices_of(idx, base_row, nx, at_borders) ==
    LET index_shifts ==
            IF base_row
            THEN << <<{"t"}, -2 * nx - 1>>, <<{"t", "l"}, -nx - 1>>,
                    <<{"l"}, -1>>, <<{"b", "l"}, nx>>,
                    <<{"b"}, 2 * nx + 1>>, <<{"b", "r"}, nx + 1>>,
                    <<{"r"}, 1>>, <<{"t", "r"}, -nx>> >>
            ELSE << <<{"t", "l"}, -nx - 1>>, <<{"b", "l"}, nx>>,
                    <<{"b", "r"}, nx + 1>>, <<{"t", "r"}, -nx>> >>
        kept == SelectSeq(index_shifts, LAMBDA e : e[1] \cap at_borders = {})
    IN  [k \in 1..Len(kept) |-> idx + kept[k][2]]

\* pyramidgen._site_position; x and y in units of spacing/2, z in units of
\* spacing/sqrt(2).
site_position(row, col, base_row) ==
    IF base_row
    THEN <<2 * col, 2 * (row \div 2), 0>>
    ELSE <<2 * col + 1, 2 * (row \div 2) + 1, 1>>

\* make_pyramid_tiling without its final assert: rows 0..2*ny, base rows
\* (even) of nx+1 sites and tip rows of nx sites, numbered consecutively.
make_pyramid_tiling(nx, ny) ==
    LET cells == Concat([r \in 1..(2 * ny + 1) |->
                           [c \in 1..(nx + (IF (r - 1) % 2 = 0 THEN 1 ELSE 0)) |->
                               <<r - 1, c - 1>>]])
    IN  [k \in 1..Len(cells) |->
            LET row == cells[k][1]
                col == cells[k][2]
                base_row == row % 2 = 0
                neighbours == neighbour_indices_of(k - 1, base_row, nx,
                                  borders(row, col, nx, ny, base_row))
            IN  Site(k - 1, site_position(row, col, base_row), neighbours,
                     Ones(Len(neighbours)))]

\* trianglegen._ceildiv: -(-a // b)
ceildiv(a, b) == -((-a) \div b)

\* trianglegen._n_vert_cols with first = "up"
n_vert_cols(y, cols) ==
    IF y % 2 = 0 THEN ceildiv(cols + 1, 2) ELSE ((cols + 1) \div 2) + 1

\* trianglegen._total_index
total_index(x, y, cols) ==
    IF y % 2 = 0
    THEN x + (y \div 2) * (n_vert_cols(0, cols) + n_vert_cols(1, cols))
    ELSE x + (y \div 2) * n_vert_cols(1, cols)
           + ceildiv(y, 2) * n_vert_cols(0, cols)

\* trianglegen._nearest_neighbours
nearest_neighbours(x, y) ==
    << <<x, y - 1>>, <<x - 1, y>>, <<x, y + 1>>, <<x + 1, y>> >>
    \o (IF y % 2 = 0
        THEN << <<x + 1, y + 1>>, <<x + 1, y - 1>> >>
        ELSE << <<x - 1, y - 1>>, <<x - 1, y + 1>> >>)

\* trianglegen._position; x in units of spacing/2, y in units of
\* sqrt(3/4)*spacing.
position(x, y) == IF y % 2 = 0 THEN <<2 * x + 1, y, 0>> ELSE <<2 * x, y, 0>>

\* make_triangle_tiling(cols, rows, "up") without its final assert.
make_triangle_tiling(cols, rows) ==
    LET cells == Concat([r \in 1..(rows + 1) |->
                           [c \in 1..n_vert_cols(r - 1, cols) |-> <<c - 1, r - 1>>]])
        boundary_filter(neigh) ==
            /\ neigh[1] >= 0
            /\ neigh[1] < n_vert_cols(neigh[2], cols)
            /\ neigh[2] >= 0
            /\ neigh[2] <= rows
    IN  [k \in 1..Len(cells) |->
            LET x == cells[k][1]
                y == cells[k][2]
                kept == SelectSeq(nearest_neighbours(x, y), boundary_filter)
                neighbours == [m \in 1..Len(kept) |->
                                  total_index(kept[m][1], kept[m][2], cols)]
            IN  Site(total_index(x, y, cols), position(x, y), neighbours,
                     Ones(Len(neighbours)))]

\* ZGNRgen.get_neighbours, with get_coordinates inlined as zig and l.
get_neighbours(idx, n_zig, n_uc) ==
    LET zig == idx \div (2 * n_uc)
        l == idx % (n_uc * 2)
        lmax == n_uc * 2 - 1
    IN  IF idx % 2 = 0
        THEN (IF zig > 0 THEN <<idx - lmax>> ELSE <<>>)
             \o <<IF zig % 2 = 0 /\ l = 0
                  THEN idx + lmax
                  ELSE idx + (-1 + 2 * (zig % 2))>>
             \o <<IF zig % 2 = 1 /\ l = lmax - 1
                  THEN idx - lmax + 2
                  ELSE idx + 1 + (zig % 2) * 2>>
        ELSE <<IF zig % 2 = 1 /\ l = 1
               THEN idx + lmax - 2
               ELSE idx - 1 - (zig % 2) * 2>>
             \o <<IF zig % 2 = 0 /\ l = lmax
                  THEN idx - lmax
                  ELSE idx + 1 - 2 * (zig % 2)>>
             \o (IF zig < n_zig - 1 THEN <<idx + lmax>> ELSE <<>>)

\* ZGNRgen.make_lattice; x in units of sqrt(3)/2, y in units of 1/2.
make_lattice(n_zig, n_uc) ==
    [k \in 1..(n_zig * n_uc * 2) |->
        LET zig == (k - 1) \div (n_uc * 2)
            l == (k - 1) % (n_uc * 2)
            xpos == 2 * (l \div 2) + (IF zig % 2 = 0 THEN l % 2 ELSE (l + 1) % 2)
            ypos == 3 * zig + (l % 2)
            neigh == get_neighbours(k - 1, n_zig, n_uc)
        IN  Site(k - 1, <<xpos, ypos>>, neigh, Ones(Len(neigh)))]

\* AGNRgen._get_l_dim with self.length = 2*n_hex: <<l, dim>>.
get_l_dim(idx, length) == <<idx - length * (idx \div length), idx \div length>>

\* Mutant of bipartite_labels: every index keeps its label.
bipartite_labels_Unchanged(dimer, n_hex) ==
    [k \in 1..(dimer * (n_hex * 2) * 2) |-> k - 1]

\* AGNRgen.bipartite_labels: N = dimer*length*2 labels, twice the number of
\* sites make_agnr builds.
bipartite_labels(dimer, n_hex) ==
    [k \in 1..(dimer * (n_hex * 2) * 2) |->
        LET idx == k - 1
            l == get_l_dim(idx, n_hex * 2)[1]
            dim == get_l_dim(idx, n_hex * 2)[2]
        IN  IF dim % 2 = 0 THEN idx
            ELSE IF l % 2 = 0 THEN idx + 1 ELSE idx - 1]

\* AGNRgen._get_neighbours
agnr_get_neighbours(idx, dimer, length) ==
    LET l == get_l_dim(idx, length)[1]
        dim == get_l_dim(idx, length)[2]
    IN  IF ((dim % 2) + l) % 2 = 0
        THEN (IF dim > 0 THEN <<idx - length>> ELSE <<>>)
             \o <<IF l > 0 THEN idx - 1 ELSE idx + length - 1>>
             \o (IF dim < dimer - 1 THEN <<idx + length>> ELSE <<>>)
        ELSE (IF dim > 0 THEN <<idx - length>> ELSE <<>>)
             \o <<IF l < length - 1 THEN idx + 1 ELSE idx - length + 1>>
             \o (IF dim < dimer - 1 THEN <<idx + length>> ELSE <<>>)

\* make_agnr, lines 148-156: xpos of the l-th site of a dimer line, in units
\* of spacing/2 (a step of 2*spacing or of spacing).
RECURSIVE agnr_xpos(_, _)
agnr_xpos(l, dim) ==
    IF l = 0 THEN dim % 2
    ELSE agnr_xpos(l - 1, dim) + (IF ((l - 1) + (dim % 2)) % 2 = 0 THEN 4 ELSE 2)

\* AGNRgen.make_agnr; x in units of spacing/2, y in units of
\* sqrt(3)/2*spacing.
make_agnr(dimer, n_hex) ==
    [k \in 1..(dimer * n_hex * 2) |->
        LET l == get_l_dim(k - 1, n_hex * 2)[1]
            dim == get_l_dim(k - 1, n_hex * 2)[2]
            neigh == agnr_get_neighbours(k - 1, dimer, n_hex * 2)
        IN  Site(k - 1, <<agnr_xpos(l, dim), dim>>, neigh, Ones(Len(neigh)))]

Generators == {"pyramid", "triangle", "zgnr", "agnr"}

\* The lattice the generator named in a builds from its two parameters.
Generated(a) ==
    CASE a.generator = "pyramid" -> make_pyramid_tiling(a.p1, a.p2)
      [] a.generator = "triangle" -> make_triangle_tiling(a.p1, a.p2)
      [] OTHER -> make_lattice(a.p1, a.p2)

InitGen ==
    /\ args \in [input : {FALSE}, generator : Generators,
                 p1 : 1..MaxGen, p2 : 1..MaxGen]
    /\ sites = <<>>
    /\ orig = <<>>
    /\ method = "anticlockwise"
    /\ pc = "start"
    /\ consistent = FALSE
    /\ relabelled = FALSE
    /\ NoWalk
    /\ file = NoFile
    /\ labelLat = <<>>
    /\ exitcode = Running
    /\ executed = <<>>
    /\ meta = DefaultMeta

\* The generator builds its lattice; the lattice is then checked (by the
\* generator's own assert lat.check_consistency(), or by the caller).
Generate ==
    /\ pc = "start"
    /\ args.generator # "agnr"
    /\ sites' = Generated(args)
    /\ orig' = sites'
    /\ pc' = "loaded"
    /\ UNCHANGED <<method, consistent, cur, visited, labels, i, path, err,
                   reported, relabelled, file, labelLat, args, exitcode,
                   executed, meta>>

\* agnrgen.run: make_agnr, then lat.relabel(gen.bipartite_labels()).
AgnrRun ==
    /\ pc = "start"
    /\ args.generator = "agnr"
    /\ orig' = make_agnr(args.p1, args.p2)
    /\ labels' = bipartite_labels(args.p1, args.p2)
    /\ sites' = LatticeRelabel(orig', labels')
    /\ relabelled' = TRUE
    /\ pc' = "loaded"
    /\ UNCHANGED <<method, consistent, cur, visited, i, path, err, reported,
                   file, labelLat, args, exitcode, executed, meta>>

NextGen ==
    \/ Generate
    \/ AgnrRun
    \/ CheckConsistency

SpecGen == InitGen /\ [][NextGen]_vars

----------------------------------------------------------------------------
(* Vocabulary of the properties. *)

Supported == {"innermost", "anticlockwise"}

NumSites == Len(sites)

\* lab is a permutation of 0..n-1: length n, every label exactly once.
IsPermutation(lab, n) ==
    /\ Len(lab) = n
    /\ \A v \in 0..(n - 1) : Cardinality({k \in 1..n : lab[k] = v}) = 1

\* Site index = storage position.
IndexIsPosition(ss) == \A k \in 1..Len(ss) : ss[k].idx = k - 1

\* The storage positions a neighbour list refers to, read the way
\* label_graph reads it (reference n is the site stored at position n; on a
\* lattice with index = storage position that is the site of index n).
Refs(ss, k) == Range(ss[k + 1].neighbours)

SymmetricNeighbours(ss) ==
    \A a, b \in 0..(Len(ss) - 1) : b \in Refs(ss, a) <=> a \in Refs(ss, b)

\* The storage positions reachable from position c along neighbour references.
RECURSIVE ReachFrom(_, _)
ReachFrom(ss, seen) ==
    LET more == seen \cup UNION {Refs(ss, k) : k \in seen}
    IN  IF more = seen THEN seen ELSE ReachFrom(ss, more)

Reachable(ss, c) == ReachFrom(ss, {c})

Connected(ss) == Reachable(ss, 0) = 0..(Len(ss) - 1)

\* The number of sites label_graph has given a label so far.
NumLabelled == Cardinality({k \in 1..Len(labels) : labels[k] # Unset})

\* The call of label_graph has ended (returned or raised).
CallEnded == pc \in {"returned", "error"}

Stuck == pc = "error" /\ err = "RuntimeError"

----------------------------------------------------------------------------
(* C1 *)

\* C1 as stated: on every connected lattice with index = storage position
\* and symmetric neighbour lists, with a supported method, label_graph
\* returns, and what it returns is a permutation of 0..N-1.
C1_ConnectedAlwaysPermutation ==
    ( /\ CallEnded
      /\ method \in Supported
      /\ IndexIsPosition(sites)
      /\ SymmetricNeighbours(sites)
      /\ Connected(sites) )
    => (pc = "returned" /\ IsPermutation(labels, NumSites))

\* C1 amended: on such a lattice label_graph either returns a permutation of
\* 0..N-1 or ends with the stuck-walk RuntimeError; it returns nothing else.
C1_PermutationOrStuck ==
    ( /\ CallEnded
      /\ method \in Supported
      /\ IndexIsPosition(sites)
      /\ SymmetricNeighbours(sites)
      /\ Connected(sites) )
    => \/ pc = "returned" /\ IsPermutation(labels, NumSites)
       \/ Stuck

\* A connected lattice of at least 3 sites on which the walk branched (the
\* labels are not the storage order) and label_graph returned.
C1_Witness ==
    /\ pc = "returned"
    /\ method \in Supported
    /\ IndexIsPosition(sites)
    /\ SymmetricNeighbours(sites)
    /\ Connected(sites)
    /\ NumSites >= 3
    /\ labels # [k \in 1..NumSites |-> k - 1]

----------------------------------------------------------------------------
(* C2 *)

\* The current site has no unvisited neighbour although sites remain unlabelled.
DeadEnd ==
    /\ pc = "walk"
    /\ NumLabelled < NumSites
    /\ \A n \in Refs(sites, cur) : At(visited, n)

----------------------------------------------------------------------------
(* C3 *)

\* Four sites split into two disconnected pairs.
TwoPairs(ss) ==
    /\ Len(ss) = 4
    /\ \A k \in 0..3 : Cardinality(Refs(ss, k)) = 1 /\ k \notin Refs(ss, k)
    /\ SymmetricNeighbours(ss)

\* C3 as stated: the count in the stuck-walk error is the number of sites
\* labelled before the failure, 2 for two disconnected pairs.
C3_ReportedCountIsLabelled ==
    Stuck => /\ reported = NumLabelled
             /\ TwoPairs(sites) => reported = 2

----------------------------------------------------------------------------
(* C4 *)

\* C4: after label_graph and relabel with its result, the site at storage
\* position k has index k.
C4_RelabelledAscending ==
    relabelled => \A k \in 1..NumSites : sites[k].idx = k - 1

\* A lattice of at least 3 sites, stored out of index order, has been
\* relabelled and its neighbour ids changed.
C4_Witness ==
    /\ relabelled
    /\ pc = "idle"
    /\ NumSites >= 3
    /\ ~IndexIsPosition(orig)
    /\ \E k \in 1..NumSites : sites[k].neighbours # orig[k].neighbours

----------------------------------------------------------------------------
(* C5 *)

\* The site that was current at step t of the walk (t = 0 for the start).
SiteAtStep(t) == At(sites, path[t + 1])

\* C5 as stated: on a lattice that passes check_consistency the returned
\* array is indexed by site index (labels[s.idx] is the step at which s was
\* the current site), and every move goes to a site whose index is listed in
\* the neighbour list of the site it leaves.
C5_LabelsIndexedBySiteIndex ==
    (pc = "returned" /\ CheckConsistencyResult(sites))
    => /\ \A t \in 0..(Len(path) - 1) : At(labels, SiteAtStep(t).idx) = t
       /\ \A t \in 0..(Len(path) - 2) :
             SiteAtStep(t + 1).idx \in Range(SiteAtStep(t).neighbours)

----------------------------------------------------------------------------
(* C6 *)

\* C6 as stated: with a method other than the two supported ones every call
\* of label_graph ends with the KeyError naming the supported methods, and
\* nothing is returned.
C6_UnknownMethodAlwaysKeyError ==
    (CallEnded /\ method \notin Supported) => (pc = "error" /\ err = "KeyError")

----------------------------------------------------------------------------
(* C9 *)

\* Every site index is in [0, N).
IndicesInRange(ss) == \A k \in 1..Len(ss) : ss[k].idx >= 0 /\ ss[k].idx < Len(ss)

\* Every neighbour id listed by any site is the index of some site.
NeighboursAreSites(ss) ==
    \A k \in 1..Len(ss) :
        \A n \in Range(ss[k].neighbours) : \E j \in 1..Len(ss) : ss[j].idx = n

\* Some neighbour list holds an id >= N or < 0.
NeighbourOutOfRange(ss) ==
    \E k \in 1..Len(ss) :
        \E n \in Range(ss[k].neighbours) : n >= Len(ss) \/ n < 0

\* C9: check_consistency returns (no exception) and its result is True
\* exactly when every site index is in [0,N) and every neighbour id is the
\* index of some site; it is False whenever a neighbour id is >= N or < 0.
C9_CheckConsistency ==
    pc = "checked"
    => /\ err = "none"
       /\ consistent <=> (IndicesInRange(sites) /\ NeighboursAreSites(sites))
       /\ NeighbourOutOfRange(sites) => ~consistent

\* check_consistency answered False for a lattice of at least 2 sites whose
\* site indices are all fine and whose only flaw is a neighbour id >= N.
C9_Witness ==
    /\ pc = "checked"
    /\ ~consistent
    /\ NumSites >= 2
    /\ IndicesInRange(sites)
    /\ \E k \in 1..NumSites : \E n \in Range(sites[k].neighbours) : n >= NumSites

----------------------------------------------------------------------------
(* C7 *)

\* The permutations of 0..n-1, as sequences of length n.
RECURSIVE PermutationsOf(_)
PermutationsOf(n) ==
    IF n = 0 THEN {<<>>}
    ELSE { [k \in 1..n |-> IF k < at THEN q[k]
                            ELSE IF k = at THEN n - 1 ELSE q[k - 1]] :
           q \in PermutationsOf(n - 1), at \in 1..n }

\* The lattice ss (index = storage position) renumbered by q: the site of
\* index a gets index q[a] and is stored at position q[a]; neighbour ids are
\* renumbered in place, positions are kept.
Renumbered(ss, q) ==
    [k \in 1..Len(ss) |->
        LET old == ss[CHOOSE j \in 1..Len(ss) : At(q, j - 1) = k - 1]
        IN  Site(k - 1, old.pos,
                 [m \in 1..Len(old.neighbours) |-> At(q, old.neighbours[m])],
                 old.hopping)]

SiteOfIndex(ss, k) == ss[CHOOSE j \in 1..Len(ss) : ss[j].idx = k]

\* For every index k the site with index k has the same position and the
\* same neighbour set in both lattices.
Aligned(a, b) ==
    /\ Len(a) = Len(b)
    /\ \A k \in 0..(Len(a) - 1) :
          /\ SiteOfIndex(a, k).pos = SiteOfIndex(b, k).pos
          /\ Range(SiteOfIndex(a, k).neighbours) = Range(SiteOfIndex(b, k).neighbours)

\* Every renumbering of ss on which label_graph succeeds is, relabelled with
\* its own result, aligned with the lattice canon.
AlignedWithRenumberings(ss, canon) ==
    \A q \in PermutationsOf(Len(ss)) :
        LET other == Renumbered(ss, q)
            res   == label_graph(other, method)
        IN  res.raised = "none" => Aligned(canon, LatticeRelabel(other, res.labels))

\* Exactly one site is closest to the centre.
UniqueStart(ss) ==
    Cardinality({k \in 1..Len(ss) :
                    \A j \in 1..Len(ss) : radii(ss)[k] <= radii(ss)[j]}) = 1

\* The first relabel of a lattice with index = storage position.
FirstRelabel ==
    /\ pc = "returned"
    /\ pc' = "idle"
    /\ ~relabelled
    /\ IndexIsPosition(sites)

----------------------------------------------------------------------------
(* C8 *)

\* new is old with the index replaced by lab[index] and every neighbour id n
\* replaced by lab[n], the neighbour list keeping its order.
RelabelledSite(old, new, lab) ==
    /\ new.idx = At(lab, old.idx)
    /\ new.pos = old.pos
    /\ Len(new.neighbours) = Len(old.neighbours)
    /\ \A m \in 1..Len(old.neighbours) :
          new.neighbours[m] = At(lab, old.neighbours[m])

\* C8: Lattice.relabel(labels) turns every site into its relabelled site
\* (index labels[old index], neighbour ids n replaced by labels[n] in the
\* same order) and leaves the sites stored by ascending index.
C8_RelabelEffect ==
    [][ (pc = "returned" /\ pc' = "idle")
        => /\ Len(sites') = Len(sites)
           /\ \A k \in 1..Len(sites) :
                 \E j \in 1..Len(sites') : RelabelledSite(sites[k], sites'[j], labels)
           /\ \A k \in 1..(Len(sites') - 1) : sites'[k].idx <= sites'[k + 1].idx
      ]_vars

\* relabel has moved sites and rewritten a neighbour list of two or more
\* ids that is not in ascending order afterwards.
C8_Witness ==
    /\ relabelled
    /\ pc = "idle"
    /\ \E k \in 1..NumSites : sites[k].pos # orig[k].pos
    /\ \E k \in 1..NumSites :
          /\ Len(sites[k].neighbours) >= 2
          /\ sites[k].neighbours[1] > sites[k].neighbours[2]

----------------------------------------------------------------------------
(* C10 *)

\* Every site has exactly 2 neighbours and the sites form one cycle.
CycleLattice(ss) ==
    /\ Len(ss) >= 3
    /\ \A k \in 0..(Len(ss) - 1) :
          /\ Len(ss[k + 1].neighbours) = 2
          /\ Cardinality(Refs(ss, k)) = 2
          /\ k \notin Refs(ss, k)
    /\ SymmetricNeighbours(ss)
    /\ Connected(ss)

\* All sites are at the same distance from the centre.
Equidistant(ss) == \A a, b \in 1..Len(ss) : radii(ss)[a] = radii(ss)[b]

C10_WitnessHexagon ==
    /\ CycleLattice(sites)
    /\ NumSites = 6
    /\ method \in Supported
    /\ pc = "returned"
    /\ path[1] # 0

----------------------------------------------------------------------------
(* File formats: C11, C12, C13, C20 (specification SpecIO). *)

\* The file was written from a lattice in memory (not given by hand).
FromLattice == ~args.input

\* The sites j such that ss lists j at k or k at j (index = storage position).
Symmetrised(ss, k) ==
    {j \in 0..(Len(ss) - 1) :
        j \in Range(At(ss, k).neighbours) \/ k \in Range(At(ss, j).neighbours)}

YamlRoundTrip ==
    /\ FromLattice
    /\ args.suffix = ".yaml"
    /\ IndexIsPosition(orig)

\* C11: for every lattice whose sites are indexed 0..N-1 in storage order,
\* write_yaml followed by read_yaml succeeds and yields N sites with the same
\* positions and, at every site, the symmetrised neighbour set of the
\* original; lattices with few or no edges and edges stored at one end only
\* included.
C11_YamlRoundTrip ==
    YamlRoundTrip =>
        /\ pc # "error"
        /\ pc = "read" =>
              /\ Len(sites) = Len(orig)
              /\ \A k \in 1..Len(orig) :
                    /\ sites[k].pos = orig[k].pos
                    /\ Range(sites[k].neighbours) = Symmetrised(orig, k - 1)

(* C12 *)

\* A non-empty lattice written to a file whose suffix selects the reader of
\* the lattice's dimension.
WndRoundTrip ==
    /\ FromLattice
    /\ orig # <<>>
    /\ args.suffix = (IF Len(orig[1].pos) = 2 THEN ".w2d" ELSE ".w3d")

\* C12: write_wnd followed by the reader of the matching dimension yields
\* the same site indices in the same storage order, the same positions and
\* the same neighbour lists, and every hopping equal to 1.
C12_WndRoundTrip ==
    WndRoundTrip =>
        /\ pc # "error"
        /\ pc = "read" =>
              /\ Len(sites) = Len(orig)
              /\ \A k \in 1..Len(orig) :
                    /\ sites[k].idx = orig[k].idx
                    /\ sites[k].pos = orig[k].pos
                    /\ sites[k].neighbours = orig[k].neighbours
                    /\ sites[k].hopping = Ones(Len(orig[k].neighbours))

\* Three sites stored out of index order, with neighbours and hoppings of 2,
\* have been written and read back.
C12_Witness ==
    /\ WndRoundTrip
    /\ pc = "read"
    /\ Len(orig) = 3
    /\ ~IndexIsPosition(orig)
    /\ \E k \in 1..3 : Len(orig[k].neighbours) = 2 /\ orig[k].hopping = <<2, 2>>
    /\ \E k \in 1..3 : sites[k].hopping = <<1, 1>>

(* C13 *)

\* The adjacency of the node holds an index outside [0, N), N the number of
\* positions.
OutOfRangePair(content) ==
    \E k \in 1..Len(content.adjacency) :
        \E c \in 1..2 :
            content.adjacency[k][c] \notin 0..(Len(content.positions) - 1)

\* C13: loading a node whose adjacency holds an index outside [0, N),
\* negative indices and N included, ends with an error and yields no lattice.
C13_OutOfRangeIsLoadError ==
    (args.input /\ OutOfRangePair(file) /\ pc \in {"read", "error"})
        => pc = "error"

(* C20 *)

\* The first pair of the node that joins a and b, in either order.
FirstOccurrence(content, a, b) ==
    CHOOSE k \in 1..Len(content.adjacency) :
        /\ content.adjacency[k] \in {<<a, b>>, <<b, a>>}
        /\ \A m \in 1..(k - 1) : content.adjacency[m] \notin {<<a, b>>, <<b, a>>}

\* The hopping the node gives to its k-th pair.
NodeHop(content, k) ==
    IF content.hopping.islist THEN content.hopping.value[k]
    ELSE content.hopping.value

\* C20: after loading a node whose adjacency indices are all in range
\* (repeated and reversed pairs included), no neighbour list holds an id
\* twice, j is listed at i iff i is listed at j, every site has as many
\* hoppings as neighbours, and the hopping of an edge is that of the first
\* occurrence of its pair.
C20_LoadedNeighbours ==
    (args.input /\ ~OutOfRangePair(file) /\ pc = "read") =>
        \A k \in 1..Len(sites) :
            /\ Len(sites[k].hopping) = Len(sites[k].neighbours)
            /\ \A m, q \in 1..Len(sites[k].neighbours) :
                  m # q => sites[k].neighbours[m] # sites[k].neighbours[q]
            /\ \A m \in 1..Len(sites[k].neighbours) :
                  LET j == sites[k].neighbours[m]
                  IN  /\ (k - 1) \in Range(At(sites, j).neighbours)
                      /\ sites[k].hopping[m] =
                            NodeHop(file, FirstOccurrence(file, k - 1, j))

\* A node with a pair, another pair and the first pair reversed, each with
\* its own hopping, has been loaded.
C20_Witness ==
    /\ args.input
    /\ pc = "read"
    /\ file.hopping.islist
    /\ file.adjacency = <<<<0, 1>>, <<1, 1>>, <<1, 0>>>>
    /\ sites[1].neighbours = <<1>>
    /\ sites[1].hopping = <<1>>

----------------------------------------------------------------------------
(* main: C14 (specification SpecMain). *)

\* check_consistency has returned False for the input lattice or for the
\* label lattice.
CheckFailed ==
    \/ "check_input" \in Range(executed) /\ ~CheckConsistencyResult(orig)
    \/ "check_labels" \in Range(executed) /\ ~CheckConsistencyResult(labelLat)

\* C14: whenever check_consistency returns False for the loaded input
\* lattice or for the loaded label lattice, the process exits with a
\* non-zero status and no relabel, plot or write step is executed afterwards.
C14_InconsistentAborts ==
    CheckFailed =>
        /\ pc = "exited"
        /\ exitcode \notin {0, Running}
        /\ executed[Len(executed)] \in {"check_input", "check_labels"}
        /\ sites = orig
        /\ file = NoFile

\* The input lattice passed its check, the label lattice failed, although
\* relabelling, a plot and an output file were asked for.
C14_Witness ==
    /\ args.input /\ args.labels /\ args.plot /\ args.output # ""
    /\ executed = <<"check_input", "check_labels">>
    /\ ~CheckConsistencyResult(labelLat)
    /\ exitcode = 1

\* The input lattice failed its check.
C14_WitnessInput ==
    /\ args.input /\ args.labels /\ args.output # ""
    /\ executed = <<"check_input">>
    /\ ~CheckConsistencyResult(orig)
    /\ exitcode = 1

----------------------------------------------------------------------------
(* Generators: C15 (specification SpecGen). *)

\* No site lists itself.
NoSelfLoop(ss) == \A k \in 1..Len(ss) : ss[k].idx \notin Range(ss[k].neighbours)

\* j is listed at i iff i is listed at j (index = storage position).
ListedBothWays(ss) ==
    \A k \in 1..Len(ss) :
        \A m \in 1..Len(ss[k].neighbours) :
            LET j == ss[k].neighbours[m]
            IN  /\ j \in 0..(Len(ss) - 1)
                /\ (k - 1) \in Range(At(ss, j).neighbours)

\* C15: for all parameters >= 1 within the bounds, the lattices built by
\* make_pyramid_tiling, make_triangle_tiling(.., "up") and
\* ZGNRgen.make_lattice satisfy check_consistency, have site index equal to
\* storage position, contain no self-loop and have symmetric neighbour lists.
C15_GeneratedLattices ==
    /\ pc = "loaded" =>
          /\ sites # <<>>
          /\ IndexIsPosition(sites)
          /\ NoSelfLoop(sites)
          /\ ListedBothWays(sites)
    /\ pc = "checked" => consistent

\* The three generators have each built and checked a lattice with both
\* parameters above 1.
C15_Witness ==
    /\ pc = "checked"
    /\ consistent
    /\ args.generator = "pyramid"
    /\ args.p1 = 2 /\ args.p2 = 3
    /\ Len(sites) = 18

C15_WitnessTriangle ==
    /\ pc = "checked"
    /\ args.generator = "triangle"
    /\ args.p1 = 3 /\ args.p2 = 2
    /\ Len(sites) = 7

C15_WitnessZgnr ==
    /\ pc = "checked"
    /\ args.generator = "zgnr"
    /\ args.p1 = 2 /\ args.p2 = 2
    /\ Len(sites) = 8

----------------------------------------------------------------------------
(* The walk of label_graph: C16, C17, C18, C19 (specification Spec).  A site *)
(* is named by its index, as in the neighbour lists and in the returned      *)
(* array (labels[k] is the new label of the site of index k).                *)

\* Distance of a site to the centre of the lattice (as norm gives it).
Radius(site) == norm(centre(sites), site.pos)

\* The site whose index has the label t in the array built so far.
SiteLabelled(t) ==
    SiteOfIndex(sites, CHOOSE k \in 0..(Len(sites) - 1) : At(labels, k) = t)

\* C16: the site that receives label 0 is a site with minimum distance to
\* the centre, and among several such sites the first in storage order.
C16_StartSiteIsInnermost ==
    labels # <<>> =>
        \E k \in 1..Len(sites) :
            /\ sites[k] = SiteLabelled(0)
            /\ \A j \in 1..Len(sites) : Radius(sites[j]) >= Radius(sites[k])
            /\ \A j \in 1..(k - 1) : Radius(sites[j]) > Radius(sites[k])

\* The ids of the neighbours of the site current at step t - 1 that were not
\* visited before step t, in neighbour-list order.
Candidates(t) ==
    SelectSeq(SiteAtStep(t - 1).neighbours,
              LAMBDA n : SiteOfIndex(sites, n) \notin
                            {SiteAtStep(u) : u \in 0..(t - 1)})

\* C17: with "innermost", the site chosen at every step is an unvisited
\* neighbour of the current site with minimal distance to the centre among
\* its unvisited neighbours, the first such one in neighbour-list order.
C17_InnermostChoice ==
    (method = "innermost" /\ labels # <<>>) =>
        \A t \in 1..(Len(path) - 1) :
            \E k \in 1..Len(Candidates(t)) :
                LET site(m) == SiteOfIndex(sites, Candidates(t)[m])
                IN  /\ SiteAtStep(t) = site(k)
                    /\ \A m \in 1..Len(Candidates(t)) :
                          Radius(site(m)) >= Radius(site(k))
                    /\ \A m \in 1..(k - 1) : Radius(site(m)) > Radius(site(k))

\* C18: with "anticlockwise", the site chosen at every step is the
\* unvisited neighbour p of the current site c that maximises
\* angle(c.pos, p.pos), the first such one in neighbour-list order.
C18_AnticlockwiseChoice ==
    (method = "anticlockwise" /\ labels # <<>>) =>
        \A t \in 1..(Len(path) - 1) :
            \E k \in 1..Len(Candidates(t)) :
                LET site(m) == SiteOfIndex(sites, Candidates(t)[m])
                    turn(m) == angle(SiteAtStep(t - 1).pos, site(m).pos)
                IN  /\ SiteAtStep(t) = site(k)
                    /\ \A m \in 1..Len(Candidates(t)) : turn(m) <= turn(k)
                    /\ \A m \in 1..(k - 1) : turn(m) < turn(k)

\* C19: when label_graph succeeds, the sites in order of their new labels
\* form a path of the neighbour graph that visits every site once: the site
\* labelled i+1 is listed at the site labelled i, no site is labelled twice.
C19_LabelsFormPath ==
    pc = "returned" =>
        /\ IsPermutation(labels, Len(sites))
        /\ \A t \in 0..(Len(sites) - 2) :
              SiteLabelled(t + 1).idx \in Range(SiteLabelled(t).neighbours)

----------------------------------------------------------------------------
(* C21 (specification SpecGen). *)

AgnrBuilt == args.generator = "agnr" /\ pc \in {"loaded", "checked"}

\* C21: after agnrgen.run, the relabelling by bipartite_labels is a
\* permutation of the site indices, the lattice satisfies check_consistency
\* with site index equal to storage position, and every edge joins a site of
\* even index (sublattice A) with a site of odd index (sublattice B).
C21_AgnrBipartite ==
    AgnrBuilt =>
        /\ IsPermutation(SubSeq(labels, 1, Len(orig)), Len(orig))
        /\ Len(sites) = Len(orig)
        /\ IndexIsPosition(sites)
        /\ \A k \in 1..Len(orig) :
              LET ld == get_l_dim(orig[k].idx, args.p2 * 2)
              IN  At(labels, orig[k].idx) % 2 = ((ld[2] % 2) + ld[1]) % 2
        /\ \A k \in 1..Len(sites) :
              \A m \in 1..Len(sites[k].neighbours) :
                  (sites[k].idx + sites[k].neighbours[m]) % 2 = 1
        /\ pc = "checked" => consistent

\* A ribbon of three dimer lines and two hexagons (12 sites) has been built,
\* relabelled and checked; on its odd dimer line the labels are swapped.
C21_Witness ==
    /\ AgnrBuilt
    /\ pc = "checked"
    /\ args.p1 = 3 /\ args.p2 = 2
    /\ Len(sites) = 12
    /\ At(labels, 4) = 5 /\ At(labels, 5) = 4

----------------------------------------------------------------------------
(* C22 (specification Spec). *)

\* p2 lies exactly half a turn away from p1.
HalfTurn(p1, p2) == (arctan2(p2) - arctan2(p1)) % 8 = 4

\* The angles select_anticlockwise computes in the coming step of the walk.
AnglesOfStep ==
    LET pos == UnvisitedPos(sites, visited, cur)
    IN  [k \in 1..Len(pos) |-> angle(At(sites, cur).pos, pos[k])]

\* C22: angle(p1, p2) lies in the half-open interval (-pi, pi]: it is never
\* -pi (-4 in units of pi/4), and it is +pi (4) when p2 is half a turn away
\* from p1. Stated for every angle a step of the anticlockwise walk computes.
C22_AngleRange ==
    (pc = "walk" /\ method = "anticlockwise" /\ i < Len(sites)) =>
        LET pos == UnvisitedPos(sites, visited, cur)
        IN  \A k \in 1..Len(pos) :
                /\ AnglesOfStep[k] \in -3..4
                /\ HalfTurn(At(sites, cur).pos, pos[k]) => AnglesOfStep[k] = 4

----------------------------------------------------------------------------
(* C23 (specification Spec). *)

\* A pass of label_graph over a lattice that was relabelled with the result
\* of an earlier pass.
LaterPass == relabelled /\ IndexIsPosition(orig)

----------------------------------------------------------------------------
(* C24 (specification Spec). *)

\* new is the site old after relabel: apart from the index and the
\* neighbour ids it is the same site, and its k-th neighbour id is the
\* relabelled k-th neighbour id of old, next to the same hopping[k].
SameSiteRelabelled(old, new, lab) ==
    /\ new.idx = At(lab, old.idx)
    /\ new.pos = old.pos
    /\ new.hopping = old.hopping
    /\ new.attributes = old.attributes
    /\ Len(new.neighbours) = Len(old.neighbours)
    /\ Len(new.hopping) = Len(new.neighbours)
    /\ \A k \in 1..Len(old.neighbours) :
          new.neighbours[k] = At(lab, old.neighbours[k])

\* C24: Lattice.relabel changes only site indices, neighbour ids and the
\* storage order. The number of sites, every site's position, hopping list
\* and attributes, the length and order of every neighbour list (hopping[k]
\* stays paired with the relabelled neighbours[k]) and the lattice's name,
\* comment and nt are unchanged.
C24_RelabelFrame ==
    [][ (pc = "returned" /\ pc' = "idle")
        => /\ Len(sites') = Len(sites)
           /\ meta' = meta
           /\ \A k \in 1..Len(sites) :
                 \E j \in 1..Len(sites') :
                     SameSiteRelabelled(sites[k], sites'[j], labels)
           /\ \A j \in 1..Len(sites') :
                 \E k \in 1..Len(sites) :
                     SameSiteRelabelled(sites[k], sites'[j], labels)
      ]_vars

\* A named lattice has been relabelled: a site with two different hoppings
\* got another index than the one its attribute recorded at construction,
\* and the id of its first neighbour changed while the hopping next to it
\* is still the one set for that neighbour.
C24_Witness ==
    /\ relabelled
    /\ pc = "idle"
    /\ meta.name = "ribbon" /\ meta.nt = 8
    /\ \E k \in 1..Len(sites) :
          /\ <<"tag", sites[k].idx>> \notin sites[k].attributes
          /\ sites[k].attributes # {}
          /\ Len(sites[k].neighbours) >= 2
          /\ sites[k].hopping[1] # sites[k].hopping[2]
          /\ sites[k].hopping[1] # sites[k].neighbours[1] + 1

----------------------------------------------------------------------------
(* C25 (specification SpecMain). *)

UniqueIndices(ss) ==
    \A a, b \in 1..Len(ss) : ss[a].idx = ss[b].idx => a = b

\* C25: in main, when the input lattice and the label lattice have passed
\* check_consistency and label_graph has succeeded on the label lattice, the
\* primary lattice after lat.relabel(labels) passes check_consistency and has
\* unique site indices, whatever the number of sites of the label lattice.
C25_RelabelKeepsConsistent ==
    (relabelled /\ "relabel" \in Range(executed) /\ CheckConsistencyResult(orig)) =>
        /\ CheckConsistencyResult(sites)
        /\ UniqueIndices(sites)

----------------------------------------------------------------------------
(* C26 (specification SpecIO). *)

\* C26: for every non-empty lattice with 2- or 3-component positions,
\* fileio.write to a path with suffix .w2d or .w3d followed by fileio.read of
\* the same path succeeds: neither call raises, the header tag written by
\* write_wnd being the one the reader selected by the suffix accepts.
C26_WndWriteThenRead ==
    (FromLattice /\ orig # <<>> /\ args.suffix \in {".w2d", ".w3d"}) =>
        pc # "error"

====
